---- MODULE Spec2Model ----
(***************************************************************************)
(* State-machine model of the gfycat client library (src/src/lib.rs,       *)
(* src/src/error.rs): OAuth2 token acquisition, the expiration instant,    *)
(* the authenticated requests with their status-code tables, and the      *)
(* decoding of response bodies.                                            *)
(*                                                                         *)
(* Time is the monotonic clock std::time::Instant in whole seconds.  The   *)
(* 64-bit widths of the source are scaled down to Width bits: expires_in   *)
(* is an unsigned Width-bit number, the seconds of an Instant a signed     *)
(* Width-bit number.                                                       *)
(***************************************************************************)
EXTENDS Integers, Sequences, FiniteSets, TLC

VARIABLES now, api, calls, last

vars == <<now, api, calls, last>>

(***************************** bounds **************************************)
\* scaled bit width of u64 (expires_in) and of the seconds of an Instant
Width == 3
\* the clock is observed at instants 0..MaxNow
MaxNow == 2

U64Max == 2^Width - 1
InstantMax == 2^(Width - 1) - 1

(***************************** values **************************************)
\* const ENDPOINT
ENDPOINT == "https://api.gfycat.com/v1/"

\* the callers (tasks) that may hold a call on the Client at the same time
CallIds == {1, 2}

\* inputs of the operations
Usernames == {"alice"}
Emails == {"brooks@karlik.org"}
UserIds == {7}
GfyIds == {"xyz"}
Credentials == {[client_id |-> "abc", client_secret |-> "xyz"]}
AccessTokens == {"tok123", "t2"}

\* HTTP status codes the server may answer with: every code some table of
\* the library names, one more 2xx code and one unmapped code
Statuses == {200, 204, 400, 401, 404, 422, 500}

\* JSON values
Num(n) == [num |-> n]
Str(s) == [str |-> s]
Bool(b) == [bool |-> b]
Obj(o) == [obj |-> o]
IsNum(x) == DOMAIN x = {"num"}
IsStr(x) == DOMAIN x = {"str"}
IsBool(x) == DOMAIN x = {"bool"}
IsObj(x) == DOMAIN x = {"obj"}
Has(o, f) == f \in DOMAIN o

\* Option<T>
None == [some |-> FALSE]
Some(x) == [some |-> TRUE, v |-> x]

\* Result<T, E> and the outcome of a call that unwinds
Ok(x) == [kind |-> "Ok", value |-> x]
Err(enum, variant, inner) == [kind |-> "Err", enum |-> enum, variant |-> variant, inner |-> inner]
Panic(msg) == [kind |-> "Panic", msg |-> msg]

(***************************** error.rs ************************************)
\* from! {reqwest::Error, AuthError::Request}
AuthError_from_reqwest(e) == Err("AuthError", "Request", e)
\* from! {reqwest::Error, ApiError::Request}
ApiError_from_reqwest(e) == Err("ApiError", "Request", e)

\* the variants of enum AuthError and enum ApiError
AuthErrorVariants == {"Request", "SerdeJson", "IoError", "Expiration"}
ApiErrorVariants == {"Request", "SerdeJson", "IoError", "InvalidValue", "Unauthorized", "Unknown", "MissingEmail"}

(***************************** transport ***********************************)
\* reqwest::Error as produced by RequestBuilder::send (the request did not
\* get an answer) and by Response::json (the body did not decode)
TransportError == [reqwest |-> "request"]
DecodeError == [reqwest |-> "decode"]

\* what send().await yields: a transport failure or a response, whatever its status
SendFailed == [sent |-> FALSE]
Response(status, body) == [sent |-> TRUE, status |-> status, body |-> body]

\* a request as built by the reqwest RequestBuilder
Request(method, url, headers, body) == [method |-> method, url |-> url, headers |-> headers, body |-> body]

(***************************** token ***************************************)
\* the bodies the authentication endpoint may answer with
TokenBodies ==
    { [token_type |-> Str("bearer"), expires_in |-> Num(e), access_token |-> Str(t)] :
        e \in 0..U64Max, t \in AccessTokens }
    \cup { [token_type |-> Str("mac"), expires_in |-> Num(1), access_token |-> Str("tok123")],
           [error |-> Str("invalid_client")] }

\* #[derive(Deserialize)] struct TokenResponse, enum TokenType
TokenResponse_decode(body) ==
    IF /\ Has(body, "token_type") /\ IsStr(body.token_type) /\ body.token_type.str = "bearer"
       /\ Has(body, "expires_in") /\ IsNum(body.expires_in) /\ body.expires_in.num \in 0..U64Max
       /\ Has(body, "access_token") /\ IsStr(body.access_token)
    THEN Some([token_type |-> "Bearer", expires_in |-> body.expires_in.num,
               access_token |-> body.access_token.str])
    ELSE None

\* time::Duration::from_secs
Duration_from_secs(secs) == secs

\* time::Instant::checked_add
checked_add(instant, duration) ==
    IF instant + duration <= InstantMax THEN Some(instant + duration) ELSE None

\* to_api with the instant added unchecked: Instant + Duration panics on overflow
to_api_unchecked(self, t) ==
    IF t + Duration_from_secs(self.expires_in) > InstantMax
    THEN Panic("overflow when adding duration to instant")
    ELSE Ok([token_type |-> self.token_type,
             expiration |-> t + Duration_from_secs(self.expires_in),
             token |-> "Bearer " \o self.access_token])

\* TokenResponse::to_api, with t the reading of Instant::now()
to_api(self, t) ==
    LET expire == Duration_from_secs(self.expires_in)
        instant_expire == checked_add(t, expire)
    IN  IF ~instant_expire.some
        THEN Err("AuthError", "Expiration", "none")
        ELSE Ok([token_type |-> self.token_type,
                 expiration |-> instant_expire.v,
                 token |-> "Bearer " \o self.access_token])

\* impl Default for Api, with t the reading of Instant::now()
Api_default(t) == [token_type |-> "Bearer", expiration |-> t, token |-> ""]

\* no Client has been produced
NoApi == [token_type |-> "none"]

\* a caller that holds no call
Idle == [pc |-> "idle"]
AllIdle == \A c \in CallIds : calls[c] = Idle

\* no operation has returned yet
NoLast == [op |-> "none"]

\* the record of the operation that returned last
Returned(op, arg, req, nsent, resp, result) ==
    [op |-> op, arg |-> arg, req |-> req, nsent |-> nsent, resp |-> resp, at |-> now,
     result |-> result]

\* a call suspended at send().await: req has gone out once
Sent(op, arg, req) == [pc |-> "sent", op |-> op, arg |-> arg, req |-> req, nsent |-> 1]

\* a call that sends its request again when the transport has failed
Resumed_retry(call, resp) ==
    IF ~resp.sent /\ call.nsent < 2 THEN [call EXCEPT !.nsent = @ + 1] ELSE Idle

\* the caller's slot once send().await has yielded resp: the rest of the
\* function sends nothing and returns
Resumed(call, resp) == Idle

(***************************** Api::new ************************************)
\* the request Api::new sends
new_request(client_id, client_secret) ==
    Request("POST", "https://api.gfycat.com/v1/oauth/token",
            {<<"content-type", "application/json">>},
            [client_id |-> client_id, client_secret |-> client_secret,
             grant_type |-> "client_credentials"])

\* the value of Api::new once send().await has yielded resp, at clock reading t
new_result(resp, t) ==
    IF ~resp.sent THEN AuthError_from_reqwest(TransportError)
    ELSE LET response == TokenResponse_decode(resp.body)
         IN  IF ~response.some THEN AuthError_from_reqwest(DecodeError)
             ELSE to_api(response.v, t)

\* Api::new and Api::from_credentials up to the first await: the request is sent
NewSend(c) ==
    /\ AllIdle
    /\ \E cred \in Credentials, via \in {"new", "from_credentials"} :
         calls' = [calls EXCEPT ![c] =
                     Sent(via, cred, new_request(cred.client_id, cred.client_secret))]
    /\ UNCHANGED <<now, api, last>>

\* Api::new from the answer on: the body is decoded and the Client is built
NewDone(c) ==
    /\ calls[c].pc = "sent"
    /\ calls[c].op \in {"new", "from_credentials"}
    /\ \E resp \in {SendFailed} \cup {Response(s, b) : s \in {200, 401}, b \in TokenBodies} :
         LET result == new_result(resp, now)
         IN  /\ api' = IF result.kind = "Ok" THEN result.value ELSE api
             /\ last' = Returned(calls[c].op, calls[c].arg, calls[c].req, calls[c].nsent,
                                 resp, result)
             /\ calls' = [calls EXCEPT ![c] = Resumed(calls[c], resp)]
    /\ UNCHANGED now

\* Api::default()
Default ==
    /\ AllIdle
    /\ api' = Api_default(now)
    /\ last' = Returned("default", "none", "none", 0, "none", Ok(Api_default(now)))
    /\ UNCHANGED <<now, calls>>

(***************************** resources *********************************)
\* The bodies a resource endpoint may answer with.  Of each record the
\* fields modelled are a required number, a required string, a renamed
\* string, a boolean and (SelfUser) one field User lacks; of GfyItem a
\* renamed string, a number and two Option fields.
UserJson ==
    [userid |-> Num(7), username |-> Str("alice"), profileUrl |-> Str("u"),
     email_verified |-> Bool(TRUE)]
SelfUserJson ==
    [userid |-> Num(7), username |-> Str("alice"), profileUrl |-> Str("u"),
     email_verified |-> Bool(TRUE), geoWhitelist |-> Str("")]
GfycatInfoJson ==
    [gfyItem |-> Obj([gfyId |-> Str("xyz"), width |-> Num(1), gifSize |-> Num(2),
                      md5 |-> Str("m")])]
GfycatInfoNoOptionalJson ==
    [gfyItem |-> Obj([gfyId |-> Str("xyz"), width |-> Num(1)])]
ErrorJson == [errorMessage |-> Str("not found")]
BadTypeJson ==
    [userid |-> Str("7"), username |-> Str("alice"), profileUrl |-> Str("u"),
     email_verified |-> Bool(TRUE), geoWhitelist |-> Str(""), gfyItem |-> Str("xyz")]
Bodies ==
    {UserJson, SelfUserJson, GfycatInfoJson, GfycatInfoNoOptionalJson, ErrorJson, BadTypeJson}

\* an Option<T> field of a derived Deserialize: absent decodes to None
Optional(o, f) == IF Has(o, f) THEN Some(o[f]) ELSE None
OptionalNum(o, f) == Has(o, f) => IsNum(o[f])
OptionalStr(o, f) == Has(o, f) => IsStr(o[f])

\* #[derive(Deserialize)] struct User
User_decode(body) ==
    IF /\ Has(body, "userid") /\ IsNum(body.userid)
       /\ Has(body, "username") /\ IsStr(body.username)
       /\ Has(body, "profileUrl") /\ IsStr(body.profileUrl)
       /\ Has(body, "email_verified") /\ IsBool(body.email_verified)
    THEN Some([type |-> "User", userid |-> body.userid.num, username |-> body.username.str,
               profile_url |-> body.profileUrl.str,
               email_verified |-> body.email_verified.bool])
    ELSE None

\* #[derive(Deserialize)] struct SelfUser
SelfUser_decode(body) ==
    IF /\ Has(body, "userid") /\ IsNum(body.userid)
       /\ Has(body, "username") /\ IsStr(body.username)
       /\ Has(body, "profileUrl") /\ IsStr(body.profileUrl)
       /\ Has(body, "email_verified") /\ IsBool(body.email_verified)
       /\ Has(body, "geoWhitelist") /\ IsStr(body.geoWhitelist)
    THEN Some([type |-> "SelfUser", userid |-> body.userid.num,
               username |-> body.username.str, profile_url |-> body.profileUrl.str,
               email_verified |-> body.email_verified.bool,
               geo_whitelist |-> body.geoWhitelist.str])
    ELSE None

\* #[derive(Deserialize)] struct GfyItem
GfyItem_decode(o) ==
    IF /\ Has(o, "gfyId") /\ IsStr(o.gfyId)
       /\ Has(o, "width") /\ IsNum(o.width)
       /\ OptionalNum(o, "gifSize")
       /\ OptionalStr(o, "md5")
    THEN Some([type |-> "GfyItem", gfy_id |-> o.gfyId.str, width |-> o.width.num,
               gif_size |-> Optional(o, "gifSize"), md5 |-> Optional(o, "md5")])
    ELSE None

\* #[derive(Deserialize)] struct GfycatInfo
GfycatInfo_decode(body) ==
    IF Has(body, "gfyItem") /\ IsObj(body.gfyItem) /\ GfyItem_decode(body.gfyItem.obj).some
    THEN Some([type |-> "GfycatInfo", gfy_item |-> GfyItem_decode(body.gfyItem.obj).v])
    ELSE None

(***************************** impl Api ************************************)
\* .header("Autorization", &self.token)
AuthHeader(self) == {<<"Autorization", self.token>>}

\* Api::user_exists: the request, and the value returned for what send() yields
user_exists_request(self, username) ==
    Request("GET", ENDPOINT \o "users/" \o username, AuthHeader(self), None)
\* user_exists with the two availability answers exchanged
user_exists_swapped(resp) ==
    IF ~resp.sent THEN ApiError_from_reqwest(TransportError)
    ELSE CASE resp.status = 200 -> Ok(TRUE)
           [] resp.status = 404 -> Ok(FALSE)
           [] resp.status = 401 -> Err("ApiError", "Unauthorized", "none")
           [] resp.status = 422 -> Err("ApiError", "InvalidValue", "none")
           [] OTHER -> Err("ApiError", "Unknown", "none")
user_exists(resp) ==
    IF ~resp.sent THEN ApiError_from_reqwest(TransportError)
    ELSE CASE resp.status = 200 -> Ok(FALSE)
           [] resp.status = 404 -> Ok(TRUE)
           [] resp.status = 401 -> Err("ApiError", "Unauthorized", "none")
           [] resp.status = 422 -> Err("ApiError", "InvalidValue", "none")
           [] OTHER -> Err("ApiError", "Unknown", "none")

\* Api::email_verified
email_verified_request(self) ==
    Request("GET", ENDPOINT \o "me/email_verified", AuthHeader(self), None)
email_verified(resp) ==
    IF ~resp.sent THEN ApiError_from_reqwest(TransportError)
    ELSE CASE resp.status = 404 -> Ok(FALSE)
           [] resp.status = 200 -> Ok(TRUE)
           [] resp.status = 401 -> Err("ApiError", "Unauthorized", "none")
           [] OTHER -> Err("ApiError", "Unknown", "none")

\* Api::send_email_verification
send_email_verification_request(self) ==
    Request("POST", ENDPOINT \o "me/send_verification_email", AuthHeader(self), None)
send_email_verification(resp) ==
    IF ~resp.sent THEN ApiError_from_reqwest(TransportError)
    ELSE CASE resp.status = 400 -> Err("ApiError", "Unknown", "none")
           [] resp.status = 404 -> Err("ApiError", "MissingEmail", "none")
           [] resp.status = 401 -> Err("ApiError", "Unauthorized", "none")
           [] OTHER -> Err("ApiError", "Unknown", "none")

\* Api::reset_password: the json value is built and never attached to the request
reset_password_request(self, email) ==
    LET json == [value |-> email, action |-> "send_password_reset_email"]
    IN  Request("PATCH", ENDPOINT \o "users/", AuthHeader(self), None)
reset_password(resp) ==
    IF ~resp.sent THEN ApiError_from_reqwest(TransportError)
    ELSE CASE resp.status = 404 -> Err("ApiError", "InvalidValue", "none")
           [] resp.status = 400 -> Err("ApiError", "InvalidValue", "none")
           [] resp.status = 422 -> Err("ApiError", "MissingEmail", "none")
           [] OTHER -> Err("ApiError", "Unknown", "none")

\* Api::user_details: Response::json decodes the body whatever the status is
user_details_request(self, user_id) ==
    Request("GET", ENDPOINT \o "users/" \o ToString(user_id), AuthHeader(self), None)
user_details(resp) ==
    IF ~resp.sent THEN ApiError_from_reqwest(TransportError)
    ELSE LET response == User_decode(resp.body)
         IN  IF ~response.some THEN ApiError_from_reqwest(DecodeError)
             ELSE Ok(response.v)

\* Api::self_details
self_details_request(self) ==
    Request("GET", ENDPOINT \o "me", AuthHeader(self), None)
self_details(resp) ==
    IF ~resp.sent THEN ApiError_from_reqwest(TransportError)
    ELSE LET response == SelfUser_decode(resp.body)
         IN  IF ~response.some THEN ApiError_from_reqwest(DecodeError)
             ELSE Ok(response.v)

\* Api::info
info_request(self, gfy_id) ==
    Request("GET", ENDPOINT \o "gfycats/" \o gfy_id, AuthHeader(self), None)
info(resp) ==
    IF ~resp.sent THEN ApiError_from_reqwest(TransportError)
    ELSE LET response == GfycatInfo_decode(resp.body)
         IN  IF ~response.some THEN ApiError_from_reqwest(DecodeError)
             ELSE Ok(response.v.gfy_item)

\* Api::need_reauthoirze, with t the reading of Instant::now()
need_reauthoirze(self, t) == self.expiration > t

\* the operations whose body is unimplemented! {}
Unimplemented ==
    {"reauthorize", "update_details", "profile_image", "create_account", "follow_user",
     "unfollow_user", "check_following", "list_following", "list_followers", "published",
     "private_feed", "timeline", "all_folders", "bookmark_folders", "bookmark_folders_id",
     "self_albums", "get_album_contents", "albums_by_link", "self_album_id", "create_album",
     "move_album_to_folder"}

\* unimplemented! {}
unimplemented == Panic("not implemented")

(***************************** actions *************************************)
\* a Client exists and is not being replaced
Constructed ==
    /\ api # NoApi
    /\ \A c \in CallIds : calls[c] # Idle => calls[c].op \notin {"new", "from_credentials"}

\* caller c runs an operation of the Client up to its first await
Send(c, op, arg, req) ==
    /\ Constructed
    /\ calls[c] = Idle
    /\ calls' = [calls EXCEPT ![c] = Sent(op, arg, req)]
    /\ UNCHANGED <<now, api, last>>

\* what the server may answer to a status-only operation and to a decoding one
StatusAnswers == {SendFailed} \cup {Response(s, None) : s \in Statuses}
BodyAnswers == {SendFailed} \cup {Response(s, b) : s \in Statuses, b \in Bodies}

\* Done for an operation that drops the Client's token when the server
\* answers 401
Done_reauthorizing(c, op, resp, result) ==
    /\ calls[c] # Idle
    /\ calls[c].op = op
    /\ calls' = [calls EXCEPT ![c] = Resumed(calls[c], resp)]
    /\ last' = Returned(op, calls[c].arg, calls[c].req, calls[c].nsent, resp, result)
    /\ api' = IF resp.sent /\ resp.status = 401 THEN [api EXCEPT !.token = ""] ELSE api
    /\ UNCHANGED now

\* caller c's operation op resumes with resp and returns result
Done(c, op, resp, result) ==
    /\ calls[c] # Idle
    /\ calls[c].op = op
    /\ calls' = [calls EXCEPT ![c] = Resumed(calls[c], resp)]
    /\ last' = Returned(op, calls[c].arg, calls[c].req, calls[c].nsent, resp, result)
    /\ UNCHANGED <<now, api>>

UserExistsSend(c) ==
    \E username \in Usernames : Send(c, "user_exists", username, user_exists_request(api, username))
UserExistsDone(c) ==
    \E resp \in StatusAnswers : Done(c, "user_exists", resp, user_exists(resp))

EmailVerifiedSend(c) ==
    Send(c, "email_verified", "none", email_verified_request(api))
EmailVerifiedDone(c) ==
    \E resp \in StatusAnswers : Done(c, "email_verified", resp, email_verified(resp))

SendEmailVerificationSend(c) ==
    Send(c, "send_email_verification", "none", send_email_verification_request(api))
SendEmailVerificationDone(c) ==
    \E resp \in StatusAnswers :
        Done(c, "send_email_verification", resp, send_email_verification(resp))

ResetPasswordSend(c) ==
    \E email \in Emails : Send(c, "reset_password", email, reset_password_request(api, email))
ResetPasswordDone(c) ==
    \E resp \in StatusAnswers : Done(c, "reset_password", resp, reset_password(resp))

UserDetailsSend(c) ==
    \E user_id \in UserIds : Send(c, "user_details", user_id, user_details_request(api, user_id))
UserDetailsDone(c) ==
    \E resp \in BodyAnswers : Done(c, "user_details", resp, user_details(resp))

SelfDetailsSend(c) ==
    Send(c, "self_details", "none", self_details_request(api))
SelfDetailsDone(c) ==
    \E resp \in BodyAnswers : Done(c, "self_details", resp, self_details(resp))

InfoSend(c) ==
    \E gfy_id \in GfyIds : Send(c, "info", gfy_id, info_request(api, gfy_id))
InfoDone(c) ==
    \E resp \in BodyAnswers : Done(c, "info", resp, info(resp))

\* a call of an unimplemented operation: its body runs at the first poll
CallUnimplemented(c) ==
    /\ Constructed
    /\ calls[c] = Idle
    /\ \E op \in Unimplemented :
         last' = Returned(op, "none", "none", 0, "none", unimplemented)
    /\ UNCHANGED <<now, api, calls>>

\* a call of need_reauthoirze
NeedReauthorize ==
    /\ Constructed
    /\ last' = Returned("need_reauthoirze", "none", "none", 0, "none", need_reauthoirze(api, now))
    /\ UNCHANGED <<now, api, calls>>

\* the clock advances
Tick ==
    /\ now < MaxNow
    /\ now < InstantMax
    /\ now' = now + 1
    /\ UNCHANGED <<api, calls, last>>

\* the Clients the operations are run on: one per access token, acquired at
\* instant 0 with one second to live, and the Client of Api::default()
Clients ==
    { to_api([token_type |-> "Bearer", expires_in |-> 1, access_token |-> t], 0).value :
        t \in AccessTokens }
    \cup {Api_default(0)}

\* the operations of a constructed Client: the state after construction
Init ==
    /\ now = 0
    /\ api \in Clients
    /\ calls = [c \in CallIds |-> Idle]
    /\ last = NoLast

Next ==
    \/ \E c \in CallIds : CallUnimplemented(c)
    \/ \E c \in CallIds : UserExistsSend(c)
    \/ \E c \in CallIds : UserExistsDone(c)
    \/ \E c \in CallIds : EmailVerifiedSend(c)
    \/ \E c \in CallIds : EmailVerifiedDone(c)
    \/ \E c \in CallIds : SendEmailVerificationSend(c)
    \/ \E c \in CallIds : SendEmailVerificationDone(c)
    \/ \E c \in CallIds : ResetPasswordSend(c)
    \/ \E c \in CallIds : ResetPasswordDone(c)
    \/ \E c \in CallIds : UserDetailsSend(c)
    \/ \E c \in CallIds : UserDetailsDone(c)
    \/ \E c \in CallIds : SelfDetailsSend(c)
    \/ \E c \in CallIds : SelfDetailsDone(c)
    \/ \E c \in CallIds : InfoSend(c)
    \/ \E c \in CallIds : InfoDone(c)

Spec == Init /\ [][Next]_vars

\* acquisition and the clock: no Client exists yet, Clients are constructed
\* and their expiration is compared with the clock as it advances
InitAcquire ==
    /\ now = 0
    /\ api = NoApi
    /\ calls = [c \in CallIds |-> Idle]
    /\ last = NoLast

NextAcquire ==
    \/ Tick
    \/ Default
    \/ \E c \in CallIds : NewSend(c)
    \/ \E c \in CallIds : NewDone(c)
    \/ NeedReauthorize

SpecAcquire == InitAcquire /\ [][NextAcquire]_vars

\* one caller invoking the operations that send a request, one after the
\* other: a Client is acquired, then its operations are called
NextRequests ==
    \/ NewSend(1)
    \/ NewDone(1)
    \/ UserExistsSend(1)
    \/ UserExistsDone(1)
    \/ EmailVerifiedSend(1)
    \/ EmailVerifiedDone(1)
    \/ SendEmailVerificationSend(1)
    \/ SendEmailVerificationDone(1)
    \/ ResetPasswordSend(1)
    \/ ResetPasswordDone(1)
    \/ UserDetailsSend(1)
    \/ UserDetailsDone(1)
    \/ SelfDetailsSend(1)
    \/ SelfDetailsDone(1)
    \/ InfoSend(1)
    \/ InfoDone(1)

SpecRequests == InitAcquire /\ [][NextRequests]_vars

(***************************** claims **************************************)
Is2xx(status) == status \in 200..299
IsErr(r, enum, variant) == r.kind = "Err" /\ r.enum = enum /\ r.variant = variant
Constructors == {"new", "from_credentials"}
Decoding == {"user_details", "self_details", "info"}

\* C1: whenever user_exists returns, a transport failure has yielded the
\* Request error, and otherwise status 200 has yielded Ok(false), 404
\* Ok(true), 401 Unauthorized, 422 InvalidValue and every other status Unknown.
C1_UserExistsTable ==
    last.op = "user_exists" =>
        LET r == last.result
        IN  IF ~last.resp.sent
            THEN IsErr(r, "ApiError", "Request") /\ r.inner = TransportError
            ELSE CASE last.resp.status = 200 -> r.kind = "Ok" /\ r.value = FALSE
                   [] last.resp.status = 404 -> r.kind = "Ok" /\ r.value = TRUE
                   [] last.resp.status = 401 -> IsErr(r, "ApiError", "Unauthorized")
                   [] last.resp.status = 422 -> IsErr(r, "ApiError", "InvalidValue")
                   [] OTHER -> IsErr(r, "ApiError", "Unknown")

\* C1 witness: GET users/alice answered 404 has returned Ok(true)
C1_Witness ==
    /\ last.op = "user_exists"
    /\ last.arg = "alice"
    /\ last.resp.sent
    /\ last.resp.status = 404
    /\ last.result.kind = "Ok"
    /\ last.result.value = TRUE

\* C2: whenever send_email_verification returns for an answered request, a
\* 2xx status has yielded Ok(()), 404 MissingEmail, 401 Unauthorized and
\* every other status Unknown.
C2_SendEmailVerificationTable ==
    (last.op = "send_email_verification" /\ last.resp.sent) =>
        LET r == last.result
        IN  CASE Is2xx(last.resp.status) -> r.kind = "Ok"
              [] last.resp.status = 404 -> IsErr(r, "ApiError", "MissingEmail")
              [] last.resp.status = 401 -> IsErr(r, "ApiError", "Unauthorized")
              [] OTHER -> IsErr(r, "ApiError", "Unknown")

\* C3: whenever reset_password(email) returns for an answered request, the
\* request was a PATCH to users/ with body {value: email, action:
\* "send_password_reset_email"}, and a 2xx status has yielded Ok(()), 404 and
\* 400 InvalidValue, 422 MissingEmail and every other status Unknown.
C3_ResetPasswordContract ==
    (last.op = "reset_password" /\ last.resp.sent) =>
        LET r == last.result
        IN  /\ last.req.method = "PATCH"
            /\ last.req.url = ENDPOINT \o "users/"
            /\ last.req.body.some
            /\ last.req.body.v = [value |-> last.arg, action |-> "send_password_reset_email"]
            /\ CASE Is2xx(last.resp.status) -> r.kind = "Ok"
                 [] last.resp.status \in {404, 400} -> IsErr(r, "ApiError", "InvalidValue")
                 [] last.resp.status = 422 -> IsErr(r, "ApiError", "MissingEmail")
                 [] OTHER -> IsErr(r, "ApiError", "Unknown")

\* the record a decoding operation is to return for a body (None: not decodable)
Decoded(op, body) ==
    CASE op = "user_details" -> User_decode(body)
      [] op = "self_details" -> SelfUser_decode(body)
      [] op = "info" -> IF GfycatInfo_decode(body).some
                        THEN Some(GfycatInfo_decode(body).v.gfy_item) ELSE None

\* C4: whenever user_details, self_details or info returns for an answered
\* request, a status 200 with a decodable body has yielded the decoded record
\* (for info the inner record of the wrapper), and every non-2xx status has
\* yielded the Unknown error whatever the body.
C4_DecodingStatusTable ==
    (last.op \in Decoding /\ last.resp.sent) =>
        LET r == last.result
            d == Decoded(last.op, last.resp.body)
        IN  /\ (last.resp.status = 200 /\ d.some) => (r.kind = "Ok" /\ r.value = d.v)
            /\ ~Is2xx(last.resp.status) => IsErr(r, "ApiError", "Unknown")

\* C5: every request in flight on the Client carries a header named exactly
\* "Authorization" whose value is "Bearer " followed by an access token, the
\* token the Client holds.
C5_AuthorizationHeader ==
    \A c \in CallIds :
        calls[c] # Idle =>
            \E h \in calls[c].req.headers :
                /\ h[1] = "Authorization"
                /\ h[2] = api.token
                /\ \E t \in AccessTokens : h[2] = "Bearer " \o t

\* C6: whenever a construction path (Api::new, Api::from_credentials,
\* Api::default) has returned, it has either produced a Client whose token is
\* "Bearer " + access_token and whose expiration is strictly after the
\* instant of construction, or returned an AuthError.
C6_ConstructionValid ==
    last.op \in Constructors \cup {"default"} =>
        LET r == last.result
        IN  IF r.kind = "Ok"
            THEN /\ r.value.expiration > last.at
                 /\ \E t \in AccessTokens : r.value.token = "Bearer " \o t
            ELSE r.kind = "Err" /\ r.enum = "AuthError"

\* C7: whenever an unimplemented operation has been invoked, the caller has
\* got an error value back; the call has not ended in a panic.
C7_UnimplementedReturnsError ==
    last.op \in Unimplemented => last.result.kind = "Err"

\* C8: the freshness predicate is true at the instant of a successful
\* acquisition, and whenever it is evaluated it is true if now is before the
\* expiration instant and false if now has passed it.
C8_FreshnessPredicate ==
    /\ (last.op \in Constructors /\ last.result.kind = "Ok") =>
           need_reauthoirze(last.result.value, last.at)
    /\ last.op = "need_reauthoirze" =>
           /\ last.at < api.expiration => last.result = TRUE
           /\ last.at > api.expiration => last.result = FALSE

\* C9: whenever an acquisition has decoded a token response, it has not
\* panicked: if now + expires_in is representable it has produced the Client
\* with that expiration, and otherwise it has returned the Expiration error.
C9_ExpirationArithmetic ==
    (/\ last.op \in Constructors
     /\ last.resp.sent
     /\ TokenResponse_decode(last.resp.body).some) =>
        LET r == last.result
            e == last.resp.body.expires_in.num
        IN  IF last.at + e <= InstantMax
            THEN /\ r.kind = "Ok"
                 /\ r.value.expiration = last.at + e
                 /\ api = r.value
            ELSE IsErr(r, "AuthError", "Expiration")

\* C9 witness: an acquisition whose expires_in overflows the instant
\* arithmetic has returned the Expiration error
C9_Witness ==
    /\ last.op = "new"
    /\ last.resp.sent
    /\ TokenResponse_decode(last.resp.body).some
    /\ last.at + last.resp.body.expires_in.num > InstantMax
    /\ IsErr(last.result, "AuthError", "Expiration")

\* C10: whenever a decoding operation returns for an answered request whose
\* body cannot be decoded, it has returned an error of a variant other than
\* the one it returns when the transport fails.
C10_DecodeErrorDistinct ==
    (/\ last.op \in Decoding
     /\ last.resp.sent
     /\ ~Decoded(last.op, last.resp.body).some) =>
        /\ last.result.kind = "Err"
        /\ last.result.variant # ApiError_from_reqwest(TransportError).variant

\* the operations that send a request, and the statuses their tables map to a value
Implemented ==
    Constructors \cup Decoding
    \cup {"user_exists", "email_verified", "send_email_verification", "reset_password"}
MappedToValue(op, status) ==
    CASE op \in {"user_exists", "email_verified"} -> status \in {200, 404}
      [] op \in {"send_email_verification", "reset_password"} -> Is2xx(status)
      [] OTHER -> TRUE

ResultOf(op, resp) ==
    CASE op = "user_exists" -> user_exists(resp)
      [] op = "email_verified" -> email_verified(resp)
      [] op = "send_email_verification" -> send_email_verification(resp)
      [] op = "reset_password" -> reset_password(resp)
      [] op = "user_details" -> user_details(resp)
      [] op = "self_details" -> self_details(resp)
      [] op = "info" -> info(resp)

\* C12: no step of any call on the Client changes its token, token type or
\* expiration; under every interleaving of the callers, every request in
\* flight carries the token the Client holds, and every call that returns
\* returns the value its own operation gives for its own response.
C12_TokenUnchangedByCalls ==
    /\ [][api' = api]_vars
    /\ [](\A c \in CallIds :
            calls[c] # Idle => \E h \in calls[c].req.headers : h[2] = api.token)
    /\ [](last.op \in Implemented \ Constructors =>
            /\ last.result = ResultOf(last.op, last.resp)
            /\ \E h \in last.req.headers : h[2] = api.token)

\* C12 witness: after a user_details call has returned its record, two
\* user_details calls are in flight on the same Client at once, both with
\* the Client's token
C12_Witness ==
    /\ api.token = "Bearer tok123"
    /\ last.op = "user_details"
    /\ last.result.kind = "Ok"
    /\ \A c \in CallIds :
         /\ calls[c] # Idle
         /\ calls[c].op = "user_details"
         /\ <<"Autorization", "Bearer tok123">> \in calls[c].req.headers
====
